---- MODULE Spec2Model ----
(***************************************************************************)
(* Frame hand-off and render-target lifecycle of bevy-mod-adwaita          *)
(* (src/src/lib.rs).                                                       *)
(*                                                                         *)
(* Three execution contexts touch the state:                               *)
(*   - the main world: AdwaitaWindow::open and the PreUpdate system        *)
(*     poll_windows;                                                       *)
(*   - the render world: extract_windows (ExtractSchedule), the render     *)
(*     pass (RenderSet::Render) and send_frame_info_to_windows;            *)
(*   - the Adwaita thread (adwaita_app::main_thread_loop), which writes    *)
(*     the size cells and the closed flag and takes published frames.      *)
(*                                                                         *)
(* A frame descriptor is modelled as [size, id]: id = <<e, n>> names the    *)
(* n-th allocation (render::setup_render_target call) made for window e,   *)
(* which produced its texture view and dmabuf fd, so two descriptors are   *)
(* equal iff they come from the same allocation.                           *)
(*                                                                         *)
(* Scheduling.  The main schedule (poll_windows) runs once between two     *)
(* consecutive extracts; the render schedule runs extract, render pass,    *)
(* send_frame_info_to_windows in this order.  Between two extracts the     *)
(* main world and the render world run in parallel, so a poll tick may     *)
(* fall before, during or after the render pass of the previous extract.   *)
(* The Adwaita thread runs at any time: between the atomic loads of one    *)
(* poll tick (closed, width, height of each window are loaded one by one), *)
(* between the stores of one send_frame_info_to_windows call (one cell     *)
(* after the other) and while AdwaitaWindow::open waits for room in the    *)
(* WindowOpen channel, which keeps the main thread from doing anything     *)
(* else.  When the Adwaita thread has exited, the send of an open fails    *)
(* and the panic ends the application.                                     *)
(*                                                                         *)
(* The history variables record what happened (allocations, takes,         *)
(* stores); no action reads them.                                          *)
(***************************************************************************)
EXTENDS Integers, Sequences, FiniteSets

\* ---------------------------------------------------------------- bounds
MaxWindows == 2
MaxHandle == 1
MaxDim == 2
MaxNeg == 2
MaxResizes == 2

Ent == 1..MaxWindows
Handles == 0..MaxHandle
Dims == (0 - MaxNeg)..MaxDim

\* ------------------------------------------------------------- constants
\* AtomicI32::new(-1): "no size received yet"
Unset == 0 - 1
\* flume::bounded::<WindowOpen>(1)
WindowOpenCapacity == 1
\* width.max(1), height.max(1)
MinDim == 1

\* Option::None / AtomicOptionBox::none()
None == [size |-> <<0, 0>>, id |-> <<0, 0>>]
\* UVec2::new(0, 0)
ZeroSize == <<0, 0>>
\* the Adwaita thread has no height store outstanding
NoPending == MaxDim + 1

VARIABLES
    \* ---- the application
    app_windows,                \* how many windows the application opens in all
    resize_budget,              \* how many size changes the toolkit delivers in all
    ui_sizes,                   \* the sizes (width, height) it may report
    panicked,                   \* a system has panicked: the application is gone
    \* ---- main world
    spawned,                    \* number of entities spawned so far
    windows,                    \* entities that carry an AdwaitaWindow
    render_target_handle,       \* AdwaitaWindow.render_target_handle
    last_render_target_size,    \* AdwaitaWindow.last_render_target_size
    next_frame_info,            \* AdwaitaWindow.next_frame_info (producer slot)
    manual_texture_views,       \* ManualTextureViews: handle -> texture
    send_window_open,           \* the WindowOpen channel
    main_updated,               \* the main schedule ran since the last extract
    opening,                    \* the entity whose open() waits to send, or 0
    poll_pc,                    \* position of poll_windows in its loop
    poll_order,                 \* the windows the loop has still to visit
    poll_width,                 \* the width the loop body has loaded
    poll_despawn,               \* entities with a despawn command pending
    \* ---- shared cells (Arc)
    render_target_width,
    render_target_height,
    shared_next_frame,          \* consumer-facing cell
    closed,
    \* ---- render world
    render_pc,                  \* position in the render cycle
    render_windows,             \* RenderWindow records
    send_pos,                   \* the record send_frame_info_to_windows visits next
    \* ---- Adwaita thread
    ui_exited,                  \* main_thread_loop has returned: receiver dropped
    ui_windows,                 \* windows whose WindowOpen was received
    ui_pending_height,          \* height store that follows a width store
    ui_frame,                   \* the frame the window presents
    ui_resizes,                 \* size changes delivered so far, per window
    \* ---- history, per window; a descriptor is named by its allocation number
    allocs,                     \* number of setup_render_target calls
    extracted,                  \* descriptors taken by extract_windows, in order
    published,                  \* descriptors stored into the consumer cell, in order
    rendered,                   \* descriptors whose render pass has completed
    ui_taken,                   \* descriptors taken by the Adwaita thread, in order
    prod_stores,                \* stored into next_frame_info since its last take
    cons_stores,                \* stored into shared_next_frame since its last take
    size_polled,                \* the size cells are as the last poll tick read them
    freed,                      \* texture views whose last reference was dropped
    ui_reported                 \* sizes the toolkit reported, width and height together

env_vars == <<app_windows, resize_budget, ui_sizes, panicked>>
main_vars == <<env_vars, spawned, windows, render_target_handle, last_render_target_size,
               next_frame_info, manual_texture_views, send_window_open, main_updated,
               opening, poll_pc, poll_order, poll_width, poll_despawn>>
poll_vars == <<poll_pc, poll_order, poll_width, poll_despawn>>
cell_vars == <<render_target_width, render_target_height, shared_next_frame, closed>>
render_vars == <<render_pc, render_windows, send_pos>>
ui_vars == <<ui_exited, ui_windows, ui_pending_height, ui_frame, ui_resizes>>
hist_vars == <<allocs, extracted, published, rendered, ui_taken, prod_stores, cons_stores,
               size_polled, freed, ui_reported>>
vars == <<main_vars, cell_vars, render_vars, ui_vars, hist_vars>>

\* ------------------------------------------------------------ primitives
\* a store that keeps an unconsumed value instead of overwriting it
StoreIfEmpty(cell, value) == IF cell = None THEN value ELSE cell

\* AtomicOptionBox::store / Option assignment: overwrite, whatever was there
Store(cell, value) == value

\* AtomicOptionBox::store / Option assignment can always proceed: it swaps
\* the value in and waits for nobody
StoreReady(cell) == TRUE

\* a take that returns the value and leaves it in the cell
TakeKeep(cell) == [value |-> cell, cell |-> cell]

\* AtomicOptionBox::take / Option::take: remove and return
Take(cell) == [value |-> cell, cell |-> None]

\* a conversion that rejects the "unset" sentinel only
TryFromOkSentinelOnly(x) == x # Unset

\* u32::try_from(i32).is_ok()
TryFromOk(x) == x >= 0

\* u32::max
Max(a, b) == IF a >= b THEN a ELSE b

\* a size taken as read, without the minimum
ClampSizeNoMin(width, height) == <<width, height>>

\* a clamp that hands the dimensions over in the wrong order
ClampSizeSwapped(width, height) == <<Max(height, MinDim), Max(width, MinDim)>>

\* UVec2::new(width.max(1), height.max(1))
ClampSize(width, height) == <<Max(width, MinDim), Max(height, MinDim)>>

\* render::setup_render_target(size, ..), the n-th call made for window e
SetupRenderTarget(size, e, n) == [size |-> size, id |-> <<e, n>>]

\* every order in which a query may visit the entities of S
Orders(S) == {o \in [1..Cardinality(S) -> S] : \A i, j \in 1..Cardinality(S) : o[i] = o[j] => i = j}

RECURSIVE Sum(_, _)
\* f[1] + ... + f[n]
Sum(f, n) == IF n = 0 THEN 0 ELSE f[n] + Sum(f, n - 1)

\* how often x occurs in the sequence s
Count(s, x) == Cardinality({i \in 1..Len(s) : s[i] = x})

\* ------------------------------------------------------------------ Init
\* AdwaitaWindowPlugin::build: with a primary_window_config the primary window
\* is opened during construction, otherwise the world starts without windows.
\* The application opens n windows in all and the toolkit delivers budget
\* size changes in all, each with a size from sizes.
InitApp(n, budget, sizes) ==
    \E primary \in BOOLEAN, h \in Handles :
        /\ app_windows = n
        /\ resize_budget = budget
        /\ ui_sizes = sizes
        /\ panicked = FALSE
        /\ spawned = (IF primary THEN 1 ELSE 0)
        /\ windows = (IF primary THEN {1} ELSE {})
        /\ render_target_handle = [e \in Ent |-> IF primary /\ e = 1 THEN h ELSE 0]
        /\ last_render_target_size = [e \in Ent |-> ZeroSize]
        /\ next_frame_info = [e \in Ent |-> None]
        /\ manual_texture_views = [k \in Handles |-> None]
        /\ send_window_open = (IF primary THEN <<1>> ELSE <<>>)
        /\ main_updated = FALSE
        /\ opening = 0
        /\ poll_pc = "idle"
        /\ poll_order = <<>>
        /\ poll_width = Unset
        /\ poll_despawn = {}
        /\ render_target_width = [e \in Ent |-> Unset]
        /\ render_target_height = [e \in Ent |-> Unset]
        /\ shared_next_frame = [e \in Ent |-> None]
        /\ closed = [e \in Ent |-> FALSE]
        /\ render_pc = "idle"
        /\ render_windows = <<>>
        /\ send_pos = 1
        /\ ui_exited = FALSE
        /\ ui_windows = {}
        /\ ui_pending_height = [e \in Ent |-> NoPending]
        /\ ui_frame = [e \in Ent |-> None]
        /\ ui_resizes = [e \in Ent |-> 0]
        /\ allocs = [e \in Ent |-> 0]
        /\ extracted = [e \in Ent |-> <<>>]
        /\ published = [e \in Ent |-> <<>>]
        /\ rendered = [e \in Ent |-> {}]
        /\ ui_taken = [e \in Ent |-> <<>>]
        /\ prod_stores = [e \in Ent |-> <<>>]
        /\ cons_stores = [e \in Ent |-> <<>>]
        /\ size_polled = [e \in Ent |-> FALSE]
        /\ freed = {}
        /\ ui_reported = [e \in Ent |-> {}]

\* MaxResizes bounds the size changes delivered to an application with a
\* single window; every further window the application opens costs one of them.
Init == \E n \in 1..MaxWindows : InitApp(n, MaxResizes + 1 - n, Dims \X Dims)

\* the application runs until a system panics
Running == ~panicked

\* ------------------------------------------------------ texture views
\* the texture views some holder has a reference to: the registry entries,
\* the descriptors in the producer slots, in the RenderWindow records and in
\* the consumer cells, and the descriptor each toolkit window presents
Held ==
    ({manual_texture_views[h].id : h \in Handles}
        \cup {next_frame_info[e].id : e \in Ent}
        \cup {render_windows[i].next_frame_info.id : i \in 1..Len(render_windows)}
        \cup {shared_next_frame[e].id : e \in Ent}
        \cup {ui_frame[e].id : e \in Ent}) \ {None.id}

\* a texture view that is destroyed as soon as the registry lets go of it
ReleaseOnReplace ==
    freed' = freed \cup (Held \ Held')
                   \cup ({manual_texture_views[h].id : h \in Handles}
                            \ ({manual_texture_views[h].id : h \in Handles}' \cup {None.id}))

\* the texture view is reference counted: a step frees the views that had a
\* holder before it and have none after it
Release ==
    freed' = freed \cup (Held \ Held')

\* ------------------------------------------------------------ main world
\* the handle loop of AdwaitaWindow::open: a random handle is accepted when
\* ManualTextureViews has no entry under it
HandleAccepted(h) == manual_texture_views[h] = None

\* The main thread is inside AdwaitaWindow::open, or inside poll_windows: it
\* runs one thing at a time.
MainIdle == opening = 0 /\ poll_pc = "idle"

\* AdwaitaWindow::open applied to a freshly spawned entity, up to the insert
\* of the component; h is the value rand::random() returned on the accepted
\* iteration of the loop.  The request is not sent yet.
open(h) ==
    LET e == spawned + 1 IN
    /\ Running
    /\ MainIdle
    /\ spawned < app_windows
    /\ HandleAccepted(h)
    /\ spawned' = e
    /\ windows' = windows \cup {e}
    /\ render_target_handle' = [render_target_handle EXCEPT ![e] = h]
    /\ last_render_target_size' = [last_render_target_size EXCEPT ![e] = ZeroSize]
    /\ next_frame_info' = [next_frame_info EXCEPT ![e] = None]
    /\ render_target_width' = [render_target_width EXCEPT ![e] = Unset]
    /\ render_target_height' = [render_target_height EXCEPT ![e] = Unset]
    /\ shared_next_frame' = [shared_next_frame EXCEPT ![e] = None]
    /\ closed' = [closed EXCEPT ![e] = FALSE]
    /\ opening' = e
    /\ UNCHANGED <<env_vars, manual_texture_views, send_window_open, main_updated,
                   poll_vars, render_vars, ui_vars, hist_vars>>

\* ... and its send on the bounded WindowOpen channel, which returns Ok once
\* the channel has room; until then the main thread stays inside open
open_send ==
    /\ Running
    /\ opening # 0
    /\ ~ui_exited
    /\ Len(send_window_open) < WindowOpenCapacity
    /\ send_window_open' = Append(send_window_open, opening)
    /\ opening' = 0
    /\ UNCHANGED <<env_vars, spawned, windows, render_target_handle,
                   last_render_target_size, next_frame_info, manual_texture_views,
                   main_updated, poll_vars, cell_vars, render_vars, ui_vars, hist_vars>>

\* ... or returns Err because the receiver has been dropped, at once or while
\* the send waits: expect panics, with the component inserted and nothing sent
open_send_fails ==
    /\ Running
    /\ opening # 0
    /\ ui_exited
    /\ panicked' = TRUE
    /\ UNCHANGED <<app_windows, resize_budget, ui_sizes, spawned, windows,
                   render_target_handle, last_render_target_size, next_frame_info,
                   manual_texture_views, send_window_open, main_updated, opening,
                   poll_vars, cell_vars, render_vars, ui_vars, hist_vars>>

\* the part of the world one iteration of poll_windows may change
PollState ==
    [windows |-> windows,
     last |-> last_render_target_size,
     slot |-> next_frame_info,
     views |-> manual_texture_views,
     allocs |-> allocs,
     stores |-> prod_stores]

\* a despawn that is logged but never issued: the closed window stays alive
DespawnSkipped(st, e) ==
    st

\* the despawn of a closed window: the component goes, and with it its
\* last_render_target_size and its producer slot
Despawn(st, e) ==
    [st EXCEPT !.windows = @ \ {e},
               !.last[e] = ZeroSize,
               !.slot[e] = None,
               !.stores[e] = <<>>]

\* an allocation that registers and publishes but forgets the size it was for
ReallocateKeepsLast(st, e, size) ==
    LET n == st.allocs[e] + 1
        target == SetupRenderTarget(size, e, n)
    IN  [st EXCEPT !.views[render_target_handle[e]] = target,
                   !.slot[e] = Store(@, target),
                   !.allocs[e] = n,
                   !.stores[e] = Append(@, n)]

\* the tail of the loop body: allocate, register, store the descriptor
Reallocate(st, e, size) ==
    LET n == st.allocs[e] + 1
        target == SetupRenderTarget(size, e, n)
    IN  [st EXCEPT !.last[e] = size,
                   !.views[render_target_handle[e]] = target,
                   !.slot[e] = Store(@, target),
                   !.allocs[e] = n,
                   !.stores[e] = Append(@, n)]

\* a loop body that stores a descriptor of the registered target again when
\* the size is unchanged
PollWindowRepublish(st, e, width, height) ==
    IF ~(TryFromOk(width) /\ TryFromOk(height)) THEN st
    ELSE LET size == ClampSize(width, height) IN
         IF size = st.last[e]
         THEN [st EXCEPT !.slot[e] = Store(@, st.views[render_target_handle[e]])]
         ELSE Reallocate(st, e, size)

\* a loop body that reallocates whenever it has loaded a valid size
PollWindowNoDedup(st, e, width, height) ==
    IF ~(TryFromOk(width) /\ TryFromOk(height)) THEN st
    ELSE Reallocate(st, e, ClampSize(width, height))

\* the loop body of poll_windows after its loads, for a window that was not
\* closed: width and height are the values the two loads returned
PollWindow(st, e, width, height) ==
    IF ~(TryFromOk(width) /\ TryFromOk(height)) THEN st
    ELSE LET size == ClampSize(width, height) IN
         IF size = st.last[e] THEN st
         ELSE Reallocate(st, e, size)

\* a test of the closed flag that is reached only with a valid size in the cells
ClosedLoadedAfterSize(e) ==
    /\ closed[e]
    /\ TryFromOk(render_target_width[e]) /\ TryFromOk(render_target_height[e])

\* window.closed.load(SeqCst), the first statement of the loop body
ClosedLoaded(e) == closed[e]

\* the window the loop of poll_windows is at, and where the loop goes next
PollEntity == Head(poll_order)
PollNext == IF Len(poll_order) > 1 THEN "closed" ELSE "end"

\* The PreUpdate system poll_windows, once per run of the main schedule.  Its
\* loads of the shared cells are separate atomic loads, and stores of the
\* Adwaita thread fall between them; so the tick is a sequence of steps.
\* poll_begin: the query yields the live windows in some order.
poll_begin ==
    /\ Running
    /\ MainIdle
    /\ ~main_updated
    /\ \E order \in Orders(windows) :
        /\ poll_order' = order
        /\ poll_pc' = (IF order = <<>> THEN "end" ELSE "closed")
    /\ UNCHANGED <<env_vars, spawned, windows, render_target_handle,
                   last_render_target_size, next_frame_info, manual_texture_views,
                   send_window_open, main_updated, opening, poll_width, poll_despawn,
                   cell_vars, render_vars, ui_vars, hist_vars>>

\* the load of the closed flag: a closed window gets a despawn command (which
\* is deferred) and the loop continues with the next window
poll_load_closed ==
    /\ Running
    /\ poll_pc = "closed"
    /\ IF ClosedLoaded(PollEntity)
       THEN /\ poll_despawn' = poll_despawn \cup {PollEntity}
            /\ poll_pc' = PollNext
            /\ poll_order' = Tail(poll_order)
            /\ size_polled' = [size_polled EXCEPT ![PollEntity] = FALSE]
       ELSE /\ poll_pc' = "width"
            /\ UNCHANGED <<poll_order, poll_despawn, size_polled>>
    /\ UNCHANGED <<env_vars, spawned, windows, render_target_handle,
                   last_render_target_size, next_frame_info, manual_texture_views,
                   send_window_open, main_updated, opening, poll_width,
                   cell_vars, render_vars, ui_vars,
                   allocs, extracted, published, rendered, ui_taken, prod_stores,
                   cons_stores, freed, ui_reported>>

\* the load of the width cell
poll_load_width ==
    /\ Running
    /\ poll_pc = "width"
    /\ poll_width' = render_target_width[PollEntity]
    /\ poll_pc' = "height"
    /\ UNCHANGED <<env_vars, spawned, windows, render_target_handle,
                   last_render_target_size, next_frame_info, manual_texture_views,
                   send_window_open, main_updated, opening, poll_order, poll_despawn,
                   cell_vars, render_vars, ui_vars, hist_vars>>

\* the load of the height cell and the rest of the loop body, which touches
\* only what the main world owns and the producer slot
poll_load_height ==
    /\ Running
    /\ poll_pc = "height"
    /\ StoreReady(next_frame_info[PollEntity])
    /\ LET st == PollWindow(PollState, PollEntity, poll_width,
                            render_target_height[PollEntity]) IN
        /\ last_render_target_size' = st.last
        /\ next_frame_info' = st.slot
        /\ manual_texture_views' = st.views
        /\ allocs' = st.allocs
        /\ prod_stores' = st.stores
    /\ poll_pc' = PollNext
    /\ poll_order' = Tail(poll_order)
    /\ poll_width' = Unset
    /\ size_polled' = [size_polled EXCEPT ![PollEntity] =
                            (poll_width = render_target_width[PollEntity])]
    /\ UNCHANGED <<env_vars, spawned, windows, render_target_handle, send_window_open,
                   main_updated, opening, poll_despawn, cell_vars, render_vars, ui_vars,
                   extracted, published, rendered, ui_taken, cons_stores, ui_reported>>
    /\ Release

RECURSIVE DespawnAll(_, _)
\* the despawn commands of the tick, applied for the entities e..MaxWindows
DespawnAll(st, e) ==
    IF e > MaxWindows THEN st
    ELSE DespawnAll(IF e \in poll_despawn THEN Despawn(st, e) ELSE st, e + 1)

\* poll_windows returns and its commands are applied; the main schedule has run
poll_end ==
    /\ Running
    /\ poll_pc = "end"
    /\ LET st == DespawnAll(PollState, 1) IN
        /\ windows' = st.windows
        /\ last_render_target_size' = st.last
        /\ next_frame_info' = st.slot
        /\ prod_stores' = st.stores
    /\ poll_pc' = "idle"
    /\ poll_despawn' = {}
    /\ main_updated' = TRUE
    /\ UNCHANGED <<env_vars, spawned, render_target_handle, manual_texture_views,
                   send_window_open, opening, poll_order, poll_width, cell_vars,
                   render_vars, ui_vars, allocs, extracted, published, rendered,
                   ui_taken, cons_stores, size_polled, ui_reported>>
    /\ Release

\* the system as a whole
poll_windows ==
    poll_begin \/ poll_load_closed \/ poll_load_width \/ poll_load_height \/ poll_end

\* The loop body in which render::setup_render_target fails.  The call returns
\* no Result, so the failure is a panic: the statements before the call have
\* run, the ones after it have not, and the despawn commands of the tick are
\* never applied.
poll_windows_fails ==
    /\ Running
    /\ poll_pc = "height"
    /\ LET e == PollEntity
           width == poll_width
           height == render_target_height[e]
           size == ClampSize(width, height)
       IN  /\ TryFromOk(width) /\ TryFromOk(height)
           /\ size # last_render_target_size[e]
           /\ last_render_target_size' = [last_render_target_size EXCEPT ![e] = size]
    /\ panicked' = TRUE
    /\ UNCHANGED <<app_windows, resize_budget, ui_sizes, spawned, windows,
                   render_target_handle, next_frame_info, manual_texture_views,
                   send_window_open, main_updated, opening, poll_vars, cell_vars,
                   render_vars, ui_vars, hist_vars>>

\* ---------------------------------------------------------- render world
RECURSIVE ExtractAllPeek(_, _)
\* a loop that copies the pending descriptor and leaves it in the slot
ExtractAllPeek(st, order) ==
    IF order = <<>> THEN st
    ELSE LET e == Head(order) IN
         IF st.slot[e] = None THEN ExtractAllPeek(st, Tail(order))
         ELSE ExtractAllPeek(
                [slot |-> st.slot,
                 records |-> Append(st.records,
                                [shared_next_frame |-> e, next_frame_info |-> st.slot[e]]),
                 extracted |-> [st.extracted EXCEPT ![e] = Append(@, st.slot[e].id[2])],
                 stores |-> st.stores],
                Tail(order))

RECURSIVE ExtractAll(_, _)
\* the loop of extract_windows over the windows in the order the query
\* yields them: take the pending descriptor of each window that has one and
\* spawn a RenderWindow for it
ExtractAll(st, order) ==
    IF order = <<>> THEN st
    ELSE LET e == Head(order)
             t == Take(st.slot[e]) IN
         IF t.value = None THEN ExtractAll(st, Tail(order))
         ELSE ExtractAll(
                [slot |-> [st.slot EXCEPT ![e] = t.cell],
                 records |-> Append(st.records,
                                [shared_next_frame |-> e, next_frame_info |-> t.value]),
                 extracted |-> [st.extracted EXCEPT ![e] = Append(@, t.value.id[2])],
                 stores |-> [st.stores EXCEPT ![e] = <<>>]],
                Tail(order))

\* ExtractSchedule: runs between a main-schedule run and the render schedule.
\* The query yields the windows in an order of its own.
\* The RenderWindow records of the previous cycle are gone by now (the render
\* world's entities are cleared when its schedule ends).
extract_windows ==
    /\ Running
    /\ MainIdle
    /\ main_updated
    /\ render_pc = "idle"
    /\ \E order \in Orders(windows) :
        LET st == ExtractAll([slot |-> next_frame_info, records |-> <<>>,
                              extracted |-> extracted, stores |-> prod_stores], order) IN
        /\ next_frame_info' = st.slot
        /\ render_windows' = st.records
        /\ extracted' = st.extracted
        /\ prod_stores' = st.stores
    /\ main_updated' = FALSE
    /\ render_pc' = "extracted"
    /\ send_pos' = 1
    /\ UNCHANGED <<env_vars, spawned, windows, render_target_handle, last_render_target_size,
                   manual_texture_views, send_window_open, opening, poll_vars,
                   cell_vars, ui_vars,
                   allocs, published, rendered, ui_taken, cons_stores, size_polled>>
    /\ UNCHANGED ui_reported
    /\ Release

\* the descriptors of window e that the RenderWindow records hold
InFlight(e) ==
    {render_windows[i].next_frame_info.id[2] : i \in
        {j \in 1..Len(render_windows) : render_windows[j].next_frame_info.id[1] = e}}

\* RenderSet::Render: the render pass of this cycle completes
render_pass ==
    /\ Running
    /\ render_pc = "extracted"
    /\ render_pc' = "rendered"
    /\ rendered' = [e \in Ent |-> rendered[e] \cup InFlight(e)]
    /\ UNCHANGED <<main_vars, cell_vars, render_windows, send_pos, ui_vars, allocs,
                   extracted, published, ui_taken, prod_stores, cons_stores, size_polled>>
    /\ UNCHANGED ui_reported
    /\ Release

\* a system that is not ordered against the render pass
SendFrameInfoUnordered(pc) == pc \in {"extracted", "rendered"}

\* the position of the render cycle at which send_frame_info_to_windows runs:
\* .after(RenderSet::Render)
SendFrameInfoScheduled(pc) == pc = "rendered"

\* an iteration that stores a copy and leaves the descriptor in the record
SendKeep(st, i) ==
    LET v == st.records[i].next_frame_info
        w == st.records[i].shared_next_frame IN
    IF v = None THEN st
    ELSE [records |-> st.records,
          shared |-> [st.shared EXCEPT ![w] = Store(@, v)],
          published |-> [st.published EXCEPT ![w] = Append(@, v.id[2])],
          stores |-> [st.stores EXCEPT ![w] = Append(@, v.id[2])]]

\* one iteration of the loop of send_frame_info_to_windows, on record i: take
\* the descriptor out of the record and, if there was one, store it into the
\* consumer-facing cell the record refers to
Send(st, i) ==
    LET t == Take(st.records[i].next_frame_info)
        w == st.records[i].shared_next_frame IN
    IF t.value = None THEN st
    ELSE [records |-> [st.records EXCEPT ![i].next_frame_info = t.cell],
          shared |-> [st.shared EXCEPT ![w] = Store(@, t.value)],
          published |-> [st.published EXCEPT ![w] = Append(@, t.value.id[2])],
          stores |-> [st.stores EXCEPT ![w] = Append(@, t.value.id[2])]]

\* The loop visits the records one by one; each store is an atomic operation
\* of its own, and the Adwaita thread runs between two of them.
send_frame_info_store ==
    /\ Running
    /\ SendFrameInfoScheduled(render_pc)
    /\ send_pos <= Len(render_windows)
    /\ render_windows[send_pos].next_frame_info # None
            => StoreReady(shared_next_frame[render_windows[send_pos].shared_next_frame])
    /\ LET st == Send([records |-> render_windows, shared |-> shared_next_frame,
                       published |-> published, stores |-> cons_stores], send_pos) IN
        /\ render_windows' = st.records
        /\ shared_next_frame' = st.shared
        /\ published' = st.published
        /\ cons_stores' = st.stores
    /\ send_pos' = send_pos + 1
    /\ UNCHANGED <<main_vars, render_target_width, render_target_height, closed,
                   render_pc, ui_vars, allocs, extracted, rendered, ui_taken,
                   prod_stores, size_polled>>
    /\ UNCHANGED ui_reported
    /\ Release

\* every record has been visited: the system returns and the cycle is complete
send_frame_info_end ==
    /\ Running
    /\ SendFrameInfoScheduled(render_pc)
    /\ send_pos > Len(render_windows)
    /\ render_pc' = "idle"
    /\ send_pos' = 1
    /\ UNCHANGED <<main_vars, cell_vars, render_windows, ui_vars, hist_vars>>

send_frame_info_to_windows ==
    \/ send_frame_info_store
    \/ send_frame_info_end

\* -------------------------------------------------------- Adwaita thread
\* main_thread_loop returns: the receiver of the WindowOpen channel is dropped
\* and the toolkit does nothing more
ui_exit ==
    /\ Running
    /\ ~ui_exited
    /\ ui_exited' = TRUE
    /\ UNCHANGED <<main_vars, cell_vars, render_vars, ui_windows, ui_pending_height,
                   ui_frame, ui_resizes, hist_vars>>

\* main_thread_loop receives a WindowOpen and creates the window
ui_recv_open ==
    /\ Running
    /\ ~ui_exited
    /\ send_window_open # <<>>
    /\ ui_windows' = ui_windows \cup {Head(send_window_open)}
    /\ send_window_open' = Tail(send_window_open)
    /\ UNCHANGED <<env_vars, spawned, windows, render_target_handle, last_render_target_size,
                   next_frame_info, manual_texture_views, main_updated, opening,
                   poll_vars, cell_vars,
                   render_vars, ui_exited, ui_pending_height, ui_frame, ui_resizes,
                   hist_vars>>

\* a size change (w, h) is delivered: the width cell is stored first
ui_resize(e, w, h) ==
    /\ Running
    /\ ~ui_exited
    /\ e \in ui_windows
    /\ ~closed[e]
    /\ ui_pending_height[e] = NoPending
    /\ Sum(ui_resizes, MaxWindows) < resize_budget
    /\ <<w, h>> \in ui_sizes
    /\ render_target_width' = [render_target_width EXCEPT ![e] = w]
    /\ ui_pending_height' = [ui_pending_height EXCEPT ![e] = h]
    /\ ui_resizes' = [ui_resizes EXCEPT ![e] = @ + 1]
    /\ size_polled' = [size_polled EXCEPT ![e] = FALSE]
    /\ UNCHANGED <<main_vars, render_target_height, shared_next_frame, closed,
                   render_vars, ui_exited, ui_windows, ui_frame, allocs, extracted,
                   published, rendered, ui_taken, prod_stores, cons_stores>>
    /\ ui_reported' = [ui_reported EXCEPT ![e] =
            IF w >= 0 /\ h >= 0 THEN @ \cup {<<Max(w, MinDim), Max(h, MinDim)>>} ELSE @]
    /\ Release

\* ... and the height cell second
ui_store_height(e) ==
    /\ Running
    /\ ~ui_exited
    /\ ui_pending_height[e] # NoPending
    /\ render_target_height' = [render_target_height EXCEPT ![e] = ui_pending_height[e]]
    /\ ui_pending_height' = [ui_pending_height EXCEPT ![e] = NoPending]
    /\ size_polled' = [size_polled EXCEPT ![e] = FALSE]
    /\ UNCHANGED <<main_vars, render_target_width, shared_next_frame, closed,
                   render_vars, ui_exited, ui_windows, ui_frame, ui_resizes, allocs,
                   extracted, published, rendered, ui_taken, prod_stores, cons_stores>>
    /\ UNCHANGED ui_reported
    /\ Release

\* the user closes the window: the closed flag goes from false to true
ui_close(e) ==
    /\ Running
    /\ ~ui_exited
    /\ e \in ui_windows
    /\ ~closed[e]
    /\ closed' = [closed EXCEPT ![e] = TRUE]
    /\ UNCHANGED <<main_vars, render_target_width, render_target_height,
                   shared_next_frame, render_vars, ui_vars, hist_vars>>

\* the presentation callback takes the pending frame, if there is one
ui_take_frame(e) ==
    LET t == Take(shared_next_frame[e]) IN
    /\ Running
    /\ ~ui_exited
    /\ e \in ui_windows
    /\ ~closed[e]
    /\ t.value # None
    /\ shared_next_frame' = [shared_next_frame EXCEPT ![e] = t.cell]
    /\ ui_frame' = [ui_frame EXCEPT ![e] = t.value]
    /\ ui_taken' = [ui_taken EXCEPT ![e] = Append(@, t.value.id[2])]
    /\ cons_stores' = [cons_stores EXCEPT ![e] = <<>>]
    /\ UNCHANGED <<main_vars, render_target_width, render_target_height, closed,
                   render_vars, ui_exited, ui_windows, ui_pending_height, ui_resizes,
                   allocs, extracted, published, rendered, prod_stores, size_polled>>
    /\ UNCHANGED ui_reported
    /\ Release

\* ------------------------------------------------------------------ Next
Next ==
    \/ \E h \in Handles : open(h)
    \/ open_send
    \/ poll_begin
    \/ poll_load_closed
    \/ poll_load_width
    \/ poll_load_height
    \/ poll_end
    \/ extract_windows
    \/ render_pass
    \/ send_frame_info_store
    \/ send_frame_info_end
    \/ ui_recv_open
    \/ \E e \in Ent, w \in Dims, h \in Dims : ui_resize(e, w, h)
    \/ \E e \in Ent : ui_store_height(e)
    \/ \E e \in Ent : ui_close(e)
    \/ \E e \in Ent : ui_take_frame(e)

\* the toolkit thread lives as long as the application and every call of
\* render::setup_render_target succeeds
Spec == Init /\ [][Next]_vars

\* an application with MaxWindows windows and as many size changes, each to
\* the smallest or to the largest square
InitTwo == InitApp(MaxWindows, MaxWindows, {<<MinDim, MinDim>>, <<MaxDim, MaxDim>>})

SpecTwo == InitTwo /\ [][Next]_vars

\* ... or the toolkit thread exits, and an open after that panics
NextExit ==
    \/ Next
    \/ ui_exit
    \/ open_send_fails

\* ... or an allocation fails as well, and the panic ends the application
NextFail ==
    \/ NextExit
    \/ poll_windows_fails

\* the applications of Init whose toolkit reports no negative size (a negative
\* size never reaches the allocator)
InitFail == \E n \in 1..MaxWindows : InitApp(n, MaxResizes + 1 - n, (0..MaxDim) \X (0..MaxDim))

SpecFail == InitFail /\ [][NextFail]_vars

\* ================================================================ claims
\* the clamp of a size read from the cells, written out per dimension
Clamped(w, h) == <<IF w < 1 THEN 1 ELSE w, IF h < 1 THEN 1 ELSE h>>

\* no element occurs twice
NoDuplicates(s) == \A i, j \in 1..Len(s) : s[i] = s[j] => i = j

\* what a cell holds after the stores in log: the last of them, or nothing
Newest(e, log) == IF log = <<>> THEN None.id ELSE <<e, log[Len(log)]>>

\* C1, state part: a frame cell holds the most recent of the values stored into
\* it since its last take (nothing if there was no store), and no value that was
\* overwritten before a take has ever been returned by a take.
C1_CellHoldsNewest ==
    \A e \in Ent :
        /\ next_frame_info[e].id = Newest(e, prod_stores[e])
        /\ shared_next_frame[e].id = Newest(e, cons_stores[e])
        /\ \A i \in 1..(Len(cons_stores[e]) - 1) : Count(ui_taken[e], cons_stores[e][i]) = 0
        /\ \A i \in 1..(Len(prod_stores[e]) - 1) : Count(extracted[e], prod_stores[e][i]) = 0

\* C1, step part: a take that follows N >= 1 stores returns the N-th of them and
\* leaves the cell empty.
C1_TakeReturnsNewest ==
    \A e \in Ent :
        /\ (cons_stores[e] # <<>> /\ cons_stores'[e] = <<>>)
            => /\ ui_taken'[e] = Append(ui_taken[e], cons_stores[e][Len(cons_stores[e])])
               /\ shared_next_frame'[e] = None
        /\ (prod_stores[e] # <<>> /\ prod_stores'[e] = <<>> /\ e \in windows')
            => /\ extracted'[e] = Append(extracted[e], prod_stores[e][Len(prod_stores[e])])
               /\ next_frame_info'[e] = None

\* C1: single-slot overwrite. After N >= 1 stores into a frame cell with no take
\* in between, the next take returns exactly the N-th value and empties the cell,
\* and none of the first N-1 values is ever returned.
C1_SingleSlotOverwrite == [](C1_CellHoldsNewest) /\ [][C1_TakeReturnsNewest]_vars

\* two descriptors were published without a take in between, and the take that
\* followed returned the second
C1_Witness ==
    \E e \in Ent : published[e] = <<1, 2>> /\ ui_taken[e] = <<2>> /\ shared_next_frame[e] = None

\* C2: deduplicated reallocation. In every iteration of the poll loop for a
\* window that is not closed, a render target is allocated if and only if both
\* values loaded from the size cells are non-negative and their clamp differs
\* from last_render_target_size; no other step allocates; so a size read twice
\* in a row allocates once.
C2_DedupRealloc ==
    [][/\ poll_load_height =>
            LET e == PollEntity
                height == render_target_height[e] IN
            /\ allocs'[e] \in {allocs[e], allocs[e] + 1}
            /\ (allocs'[e] = allocs[e] + 1) <=>
                  /\ poll_width >= 0
                  /\ height >= 0
                  /\ Clamped(poll_width, height) # last_render_target_size[e]
            /\ \A o \in Ent \ {e} : allocs'[o] = allocs[o]
       /\ ~poll_load_height => allocs' = allocs]_vars

\* a first tick allocated for a size, its descriptor went through extract, and a
\* later tick read the same size again and allocated nothing
C2_Witness ==
    \E e \in windows :
        /\ main_updated /\ size_polled[e]
        /\ allocs[e] = 1 /\ extracted[e] = <<1>>
        /\ render_target_width[e] >= 0 /\ render_target_height[e] >= 0
        /\ last_render_target_size[e]
              = Clamped(render_target_width[e], render_target_height[e])

\* C3: minimum-size clamp. Every size passed to the allocator, and every value
\* poll_windows writes to last_render_target_size, is the size loaded from the
\* cells with each dimension raised to at least 1: (0,2) gives (1,2) and (0,0)
\* gives (1,1).
C3_MinSizeClamp ==
    [][poll_load_height =>
        LET e == PollEntity
            size == last_render_target_size'[e] IN
        allocs'[e] # allocs[e] =>
            /\ size[1] >= 1 /\ size[2] >= 1
            /\ size = Clamped(poll_width, render_target_height[e])
            /\ next_frame_info'[e].size = size
            /\ manual_texture_views'[render_target_handle[e]].size = size
            /\ manual_texture_views'[render_target_handle[e]].id = <<e, allocs'[e]>>]_vars

\* the only size ever reported was (0,0), a tick has read it, and the target
\* allocated for it is (1,1)
C3_Witness ==
    \E e \in windows :
        /\ ui_resizes[e] = 1 /\ ui_pending_height[e] = NoPending /\ size_polled[e]
        /\ render_target_width[e] = 0 /\ render_target_height[e] = 0
        /\ allocs[e] = 1
        /\ last_render_target_size[e] = <<1, 1>>
        /\ manual_texture_views[render_target_handle[e]].size = <<1, 1>>

\* C4: sentinel handling. In an iteration of the poll loop that has loaded a
\* negative width or a negative height (-1 or lower) for a window that is not
\* closed, nothing is allocated for the window, and its
\* last_render_target_size, its producer slot and the registry are left as
\* they were.
C4_SentinelSkips ==
    [][poll_load_height =>
        LET e == PollEntity IN
        (poll_width < 0 \/ render_target_height[e] < 0) =>
            /\ allocs' = allocs
            /\ last_render_target_size' = last_render_target_size
            /\ next_frame_info' = next_frame_info
            /\ manual_texture_views' = manual_texture_views]_vars

\* a tick has read a width below the sentinel next to a valid height, after a
\* target had been allocated, and left the window as it was
C4_Witness ==
    \E e \in windows :
        /\ main_updated /\ size_polled[e]
        /\ render_target_width[e] < Unset /\ render_target_height[e] >= 0
        /\ allocs[e] = 1
        /\ last_render_target_size[e] # ZeroSize
        /\ last_render_target_size[e] # Clamped(render_target_width[e], render_target_height[e])

\* C5, state part: a window closed before any size was reported has no render
\* target allocated, ever.
C5_NoAllocation ==
    \A e \in Ent :
        (closed[e] /\ ui_resizes[e] = 0) =>
            /\ render_target_width[e] = Unset /\ render_target_height[e] = Unset
            /\ allocs[e] = 0
            /\ last_render_target_size[e] = ZeroSize
            /\ \A k \in Handles : manual_texture_views[k].id[1] # e

\* C5, step part: the iteration that loads a true closed flag issues the
\* despawn and goes on to the next window without loading the size cells, and
\* the end of the tick destroys the windows whose despawn was issued.
C5_PollDespawns ==
    /\ (poll_load_closed /\ closed[PollEntity]) =>
            /\ PollEntity \in poll_despawn'
            /\ poll_pc' # "width"
    /\ poll_end => windows' = windows \ poll_despawn

\* C5: close tears down cleanly. A window whose closed flag is set before any
\* size has been reported is destroyed by poll_windows, and no render target is
\* allocated for it over its whole life.
C5_CloseBeforeSize == [](C5_NoAllocation) /\ [][C5_PollDespawns]_vars

\* a window was closed before any size was reported and a poll tick destroyed it
C5_Witness ==
    \E e \in 1..spawned :
        /\ e \notin windows /\ closed[e] /\ ui_resizes[e] = 0 /\ allocs[e] = 0

\* C6: handle uniqueness. No two live window entities hold the same
\* render_target_handle, whatever the order of opens and poll ticks.
C6_HandleUnique ==
    \A a, b \in windows : a # b => render_target_handle[a] # render_target_handle[b]

\* C7, state part: every descriptor that has been stored into a consumer-facing
\* cell (or taken from it) was in flight during a render pass that has completed.
C7_PublishedAfterRender ==
    \A e \in Ent :
        /\ \A i \in 1..Len(published[e]) : published[e][i] \in rendered[e]
        /\ shared_next_frame[e] # None => shared_next_frame[e].id[2] \in rendered[e]
        /\ ui_frame[e] # None => ui_frame[e].id[2] \in rendered[e]

\* C7, step part: a render cycle goes extract, render pass, publish, and a store
\* into a consumer-facing cell happens only after the render pass.
C7_CycleOrder ==
    /\ render_pc' # render_pc =>
          <<render_pc, render_pc'>> \in
              {<<"idle", "extracted">>, <<"extracted", "rendered">>, <<"rendered", "idle">>}
    /\ published' # published => render_pc = "rendered"

\* C7: publish-after-render ordering. A frame descriptor is never in the
\* consumer-facing cell before the render pass of the cycle that extracted it
\* has completed; each cycle runs extract, then the render pass, then publish.
C7_PublishAfterRender == [](C7_PublishedAfterRender) /\ [][C7_CycleOrder]_vars

\* a descriptor went through a whole cycle and sits in the consumer-facing cell
C7_Witness ==
    \E e \in Ent :
        /\ render_pc = "idle"
        /\ shared_next_frame[e] # None
        /\ published[e] # <<>>
        /\ shared_next_frame[e].id[2] \in rendered[e]

\* C8 as stated: when the publish phase of a cycle completes, the producer-side
\* slot of every window is empty.
C8_EmptyAfterCycle ==
    [][send_frame_info_end => \A e \in Ent : next_frame_info'[e] = None]_vars

\* C8 as amended: when the extract phase completes, the producer-side slot of
\* every window is empty, and only a poll tick fills a slot again (which may
\* happen before the publish phase of the same cycle).
C8_EmptyAfterExtract ==
    [][/\ extract_windows => \A e \in Ent : next_frame_info'[e] = None
       /\ (\E e \in Ent : next_frame_info[e] = None /\ next_frame_info'[e] # None)
             => (poll_load_height /\ ~main_updated)]_vars

\* extract has just emptied a slot: its descriptor is in a RenderWindow record
C8_Witness ==
    /\ render_pc = "extracted"
    /\ ~main_updated
    /\ render_windows # <<>>
    /\ \A e \in Ent : next_frame_info[e] = None

\* C9, state part: the descriptors stored into a window's consumer-facing cell
\* are the extracted ones, each once and in order; between cycles all of them
\* have been forwarded and no RenderWindow record holds a descriptor.
C9_ForwardedOnce ==
    /\ \A e \in Ent :
        /\ NoDuplicates(published[e])
        /\ Len(published[e]) <= Len(extracted[e])
        /\ \A i \in 1..Len(published[e]) : published[e][i] = extracted[e][i]
        /\ render_pc = "idle" => published[e] = extracted[e]
        /\ render_pc # "idle" =>
              \A i \in (Len(published[e]) + 1)..Len(extracted[e]) :
                  \E j \in 1..Len(render_windows) :
                      render_windows[j].next_frame_info.id = <<e, extracted[e][i]>>
    /\ render_pc = "idle" =>
          \A j \in 1..Len(render_windows) : render_windows[j].next_frame_info = None

\* C9, step part: every iteration of send_frame_info_to_windows stores the
\* descriptor of its record into the cell the record refers to and leaves the
\* record empty, touching no other record; the system returns when every
\* record has been visited and is empty.
C9_SendForwards ==
    /\ send_frame_info_store =>
            LET r == render_windows[send_pos] IN
            /\ r.next_frame_info # None =>
                    /\ shared_next_frame'[r.shared_next_frame] = r.next_frame_info
                    /\ published'[r.shared_next_frame]
                          = Append(published[r.shared_next_frame], r.next_frame_info.id[2])
                    /\ render_windows'[send_pos].next_frame_info = None
            /\ \A j \in 1..Len(render_windows) :
                    j # send_pos => render_windows'[j] = render_windows[j]
    /\ send_frame_info_end =>
            \A j \in 1..Len(render_windows) : render_windows[j].next_frame_info = None

\* C9: exactly-once forwarding. Every descriptor extract_windows takes from a
\* producer-side slot is stored into that window's consumer-facing cell by
\* send_frame_info_to_windows exactly once, and the record is empty afterwards.
C9_ExactlyOnceForwarding == [](C9_ForwardedOnce) /\ [][C9_SendForwards]_vars

\* a cycle carries a descriptor for each of two windows and is in the middle of
\* its publish: the first record is empty, its descriptor was stored and the
\* UI thread has already taken it, while the second record still holds its
\* descriptor and the cell of its window is empty
C9_Witness ==
    /\ render_pc = "rendered"
    /\ Len(render_windows) = 2
    /\ send_pos = 2
    /\ render_windows[1].next_frame_info = None
    /\ render_windows[2].next_frame_info # None
    /\ ui_taken[render_windows[1].shared_next_frame] = <<1>>
    /\ published[render_windows[2].shared_next_frame] = <<>>
    /\ shared_next_frame[render_windows[2].shared_next_frame] = None

\* C10 as stated: every descriptor stored into the consumer-facing cell is
\* returned by exactly one take of the Adwaita thread (so a published descriptor
\* is either still in the cell or has been taken once).
C10_ExactlyOneTake ==
    \A e \in Ent : \A i \in 1..Len(published[e]) :
        \/ Count(ui_taken[e], published[e][i]) = 1
        \/ shared_next_frame[e].id = <<e, published[e][i]>>

\* C10 as amended: every descriptor stored into the consumer-facing cell is
\* returned by at most one take of the Adwaita thread, and only published
\* descriptors are returned; one that is neither taken nor in the cell was
\* overwritten by a later publish.
C10_AtMostOneTake ==
    \A e \in Ent :
        /\ NoDuplicates(ui_taken[e])
        /\ \A i \in 1..Len(ui_taken[e]) : Count(published[e], ui_taken[e][i]) = 1
        /\ \A i \in 1..Len(published[e]) :
              \/ Count(ui_taken[e], published[e][i]) = 1
              \/ shared_next_frame[e].id = <<e, published[e][i]>>
              \/ i < Len(published[e])

\* the first descriptor was overwritten in the cell and never taken; the second
\* was taken once and is the frame the window presents
C10_Witness ==
    \E e \in Ent :
        /\ Len(published[e]) = 2
        /\ Count(ui_taken[e], published[e][1]) = 0
        /\ Count(ui_taken[e], published[e][2]) = 1
        /\ ui_frame[e].id = <<e, published[e][2]>>

\* ------------------------------------------------------------------- C11
\* a window that was opened and whose entity has been destroyed
Destroyed(e) == e <= spawned /\ e \notin windows

\* C11: once the closed flag of a window is true, the first poll tick that
\* starts afterwards destroys the entity: its iteration issues the despawn
\* without loading the size cells, allocating or storing a descriptor, and the
\* end of the tick removes the window; the closed flag never goes back to
\* false, a destroyed window never comes back, and nothing is allocated or
\* stored for a destroyed window
C11_CloseHandshake ==
    /\ [](\A e \in poll_despawn : closed[e])
    /\ [][/\ poll_begin => \A e \in windows : Count(poll_order', e) = 1
          /\ (poll_load_closed /\ closed[PollEntity]) =>
                /\ PollEntity \in poll_despawn'
                /\ poll_pc' # "width"
                /\ allocs' = allocs
                /\ next_frame_info' = next_frame_info
          /\ poll_end =>
                \A e \in windows : closed[e] /\ e \in poll_despawn =>
                    /\ e \notin windows'
                    /\ allocs'[e] = allocs[e]
                    /\ next_frame_info'[e] = None
          /\ \A e \in Ent :
                /\ (e <= spawned /\ closed[e]) => closed'[e]
                /\ Destroyed(e) =>
                    /\ e \notin windows'
                    /\ allocs'[e] = allocs[e]
                    /\ next_frame_info'[e] = None
                    /\ last_render_target_size'[e] = ZeroSize]_vars

\* a window that had a render target, then got a new valid size and the
\* closed flag, and was destroyed by the next tick without a second allocation
C11_Witness ==
    \E e \in Ent :
        /\ Destroyed(e)
        /\ closed[e]
        /\ allocs[e] = 1
        /\ TryFromOk(render_target_width[e]) /\ TryFromOk(render_target_height[e])
        /\ manual_texture_views[render_target_handle[e]].id = <<e, 1>>
        /\ manual_texture_views[render_target_handle[e]].size
             # Clamped(render_target_width[e], render_target_height[e])

\* ------------------------------------------------------------------- C12
\* C12: after poll_windows has destroyed a window, the Bevy side holds no
\* resource of it: its producer slot is gone and ManualTextureViews has no
\* entry of that window under its render_target_handle
C12_CloseReleasesAll ==
    \A e \in Ent :
        Destroyed(e) =>
            /\ next_frame_info[e] = None
            /\ manual_texture_views[render_target_handle[e]].id[1] # e

\* ------------------------------------------------------------------- C13
\* the sizes reported in the runs that are checked for progress
FairSizes == {0, MaxDim} \X {0, MaxDim}

InitFair == \E n \in 1..MaxWindows : InitApp(n, MaxResizes + 1 - n, FairSizes)

\* The Bevy runner keeps updating the app: the main schedule (poll_windows),
\* the extract and the render schedule are run again and again, and a send
\* that has room returns; so each of these steps is taken when it stays
\* possible.  Nothing is assumed of the Adwaita thread: it may stop receiving
\* requests, taking frames, reporting sizes and closing windows, and it may
\* exit.
SpecFair ==
    /\ InitFair /\ [][NextExit]_vars
    /\ WF_vars(open_send)
    /\ WF_vars(open_send_fails)
    /\ WF_vars(poll_windows)
    /\ WF_vars(extract_windows)
    /\ WF_vars(render_pass)
    /\ WF_vars(send_frame_info_to_windows)

\* C13: whatever the UI thread does or fails to do, the render
\* cycle keeps turning: again and again a cycle is extracted (which takes a
\* completed poll tick before it) and again and again a cycle has published
\* and is complete
C13_NonBlockingProgress ==
    /\ []<>(render_pc = "extracted")
    /\ []<>(render_pc = "idle")

\* ------------------------------------------------------------------- C14
\* C14: a texture view is freed only when no holder is left, so no holder
\* ever refers to a freed texture view; in particular the descriptor that the
\* UI thread takes and presents refers to a live texture view, also after
\* poll_windows has replaced the registry entry of the window
C14_TextureViewLifetime ==
    /\ Held \cap freed = {}
    /\ \A e \in Ent :
        /\ ui_frame[e] # None => ui_frame[e].id \notin freed
        /\ shared_next_frame[e] # None => shared_next_frame[e].id \notin freed

\* the UI thread presents the first render target of a window whose registry
\* entry has been replaced by the second, and an earlier view has been freed
C14_Witness ==
    \E e \in Ent :
        /\ ui_frame[e].id = <<e, 1>>
        /\ manual_texture_views[render_target_handle[e]].id = <<e, 2>>
        /\ shared_next_frame[e].id = <<e, 2>>

\* ------------------------------------------------------------------- C15
\* C15: last_render_target_size changes only with a successful reallocation:
\* whenever it holds a size other than (0, 0) for a live window, a render
\* target of that size has been allocated for the window and, unless another
\* window has since taken the handle, is the one registered under it; a
\* failed allocation leaves it as it was
C15_LastSizeOnlyOnSuccess ==
    \A e \in windows :
        last_render_target_size[e] # ZeroSize =>
            /\ allocs[e] >= 1
            /\ LET view == manual_texture_views[render_target_handle[e]] IN
               view.id[1] = e =>
                    /\ view.id[2] = allocs[e]
                    /\ view.size = last_render_target_size[e]

\* ------------------------------------------------------------------- C16
\* C16: a reallocation replaces the registration under the window's handle,
\* so between poll ticks every live window whose last_render_target_size is
\* not (0, 0) has a registry entry under its render_target_handle, and the
\* size of that entry is its last_render_target_size
C16_RegistryMatchesLast ==
    \A e \in windows :
        last_render_target_size[e] # ZeroSize =>
            /\ manual_texture_views[render_target_handle[e]] # None
            /\ manual_texture_views[render_target_handle[e]].size
                 = last_render_target_size[e]

\* ------------------------------------------------------------------- C17
\* both cells of a live, open window hold the non-negative size of the last
\* size change, and no store of the UI thread is outstanding
SizeWritten(e) ==
    /\ e \in windows
    /\ ~closed[e]
    /\ ui_pending_height[e] = NoPending
    /\ TryFromOk(render_target_width[e]) /\ TryFromOk(render_target_height[e])

\* ... and the UI thread has stopped writing sizes
SizeFinal(e) ==
    /\ SizeWritten(e)
    /\ Sum(ui_resizes, MaxWindows) = resize_budget

\* last_render_target_size is the clamp of what the cells hold
Converged(e) ==
    last_render_target_size[e] = Clamped(render_target_width[e], render_target_height[e])

\* C17: when the UI thread has written a non-negative size, the iteration of
\* a poll tick that loads both cells after both writes leaves
\* last_render_target_size at the clamp of that size; as long as the UI thread
\* writes nothing more it stays there and nothing more is allocated for the
\* window; and after a final size that iteration does come, unless the main
\* thread never leaves an open (its send waits, or has failed)
C17_StaleSizeSelfCorrects ==
    /\ [](\A e \in Ent : (SizeWritten(e) /\ size_polled[e]) => Converged(e))
    /\ [][\A e \in Ent :
            /\ (/\ poll_load_height /\ e = PollEntity
                /\ SizeWritten(e) /\ poll_width = render_target_width[e])
                    => (Converged(e)' /\ size_polled'[e])
            /\ (SizeWritten(e) /\ size_polled[e]) =>
                    /\ allocs'[e] = allocs[e]
                    /\ e \in windows' => last_render_target_size'[e] = last_render_target_size[e]]_vars
    /\ \/ <>[](opening # 0)
       \/ \A e \in Ent : SizeFinal(e) ~> (closed[e] \/ (size_polled[e] /\ Converged(e)))

\* a window whose first size was allocated for, whose second and final size
\* was picked up by a later tick, and which has seen one more tick since
C17_Witness ==
    \E e \in Ent :
        /\ SizeFinal(e)
        /\ Converged(e)
        /\ ui_resizes[e] = 2
        /\ allocs[e] >= 2
        /\ size_polled[e]
        /\ next_frame_info[e] = None
        /\ extracted[e] # <<>>
        /\ extracted[e][Len(extracted[e])] = allocs[e]
        /\ main_updated

\* ------------------------------------------------------------------- C18
\* the tick allocates a render target for window e
Allocates(e) == e \in windows /\ allocs'[e] > allocs[e]

\* C18 (as claimed): every size poll_windows allocates for is the clamp of a
\* width and height the UI thread reported together
C18_NoTornSize ==
    [][poll_load_height =>
        \A e \in Ent : Allocates(e) => last_render_target_size'[e] \in ui_reported[e]]_vars

\* C18 (amended): every size poll_windows allocates for is the clamp of the
\* width it loaded and the height it loaded, each the latest value in its
\* cell at its load; it is a size the UI thread reported together unless a
\* store of the UI thread fell between the two loads (the width cell no longer
\* holds the loaded width) or the height store of a size change is outstanding
C18_TornOnlyMidChange ==
    [][poll_load_height =>
        \A e \in Ent : Allocates(e) =>
            /\ e = PollEntity
            /\ last_render_target_size'[e] = Clamped(poll_width, render_target_height[e])
            /\ (ui_pending_height[e] = NoPending /\ poll_width = render_target_width[e])
                 => last_render_target_size'[e] \in ui_reported[e]]_vars

\* a render target was allocated for a size the UI thread never reported, and
\* a later tick has allocated for the size it did report
C18_Witness ==
    \E e \in Ent :
        /\ allocs[e] = 3
        /\ ui_resizes[e] = 2
        /\ ui_pending_height[e] = NoPending
        /\ Converged(e)
        /\ last_render_target_size[e] \in ui_reported[e]
        /\ size_polled[e]

\* ------------------------------------------------------------------- C19
\* C19: a descriptor comes into being only in a poll tick that reallocates:
\* a producer slot gets a new content only in a poll_windows step that
\* allocates for the window, and it is the descriptor of that allocation; a
\* cycle carries a descriptor only if the slot held one at its extract and
\* publishes exactly what it carries; so no window has more descriptors
\* extracted or published than render targets allocated
C19_DescriptorsFromAllocations ==
    /\ [](\A e \in Ent :
            /\ Len(extracted[e]) <= allocs[e]
            /\ Len(published[e]) <= allocs[e])
    /\ [][\A e \in Ent :
            /\ (next_frame_info'[e] # next_frame_info[e] /\ next_frame_info'[e] # None) =>
                    /\ poll_load_height
                    /\ allocs'[e] = allocs[e] + 1
                    /\ next_frame_info'[e].id = <<e, allocs'[e]>>
            /\ (extract_windows /\ next_frame_info[e] = None) => InFlight(e)' = {}
            /\ send_frame_info_store =>
                    Len(published'[e]) = Len(published[e])
                        + Cardinality(InFlight(e)) - Cardinality(InFlight(e)')
            /\ send_frame_info_end => InFlight(e) = {}
            /\ ~send_frame_info_store => published'[e] = published[e]]_vars

\* two allocations, both published, and a further cycle that found the slot
\* empty and completed without publishing anything
C19_Witness ==
    \E e \in Ent :
        /\ allocs[e] = 2
        /\ published[e] = <<1, 2>>
        /\ render_pc = "idle"
        /\ render_windows = <<>>

\* ------------------------------------------------------------------- C20
\* the allocation numbers in s go strictly up
Increasing(s) == \A i, j \in 1..Len(s) : i < j => s[i] < s[j]

\* C20: descriptors travel in the order of their allocations: what a window
\* has had extracted, published and taken by the UI thread is each in strictly
\* increasing allocation order, the UI thread takes only what was published,
\* and no step puts an older descriptor where a newer one is, in the
\* consumer cell or in the toolkit window
C20_AllocationOrder ==
    /\ [](\A e \in Ent :
            /\ Increasing(extracted[e])
            /\ Increasing(published[e])
            /\ Increasing(ui_taken[e])
            /\ \A i \in 1..Len(ui_taken[e]) : Count(published[e], ui_taken[e][i]) = 1)
    /\ [][\A e \in Ent :
            /\ (shared_next_frame[e] # None /\ shared_next_frame'[e] # None)
                    => shared_next_frame'[e].id[2] >= shared_next_frame[e].id[2]
            /\ (ui_frame[e] # None /\ ui_frame'[e] # ui_frame[e])
                    => ui_frame'[e].id[2] > ui_frame[e].id[2]]_vars

\* three allocations published in order; the UI thread took the first and the
\* third, the second having been overwritten in the cell before it looked
C20_Witness ==
    \E e \in Ent :
        /\ published[e] = <<1, 2, 3>>
        /\ ui_taken[e] = <<1, 3>>
        /\ ui_frame[e].id = <<e, 3>>

====
